---- MODULE Spec2Model ----
(***************************************************************************)
(* LatestMap (src/src/lib.rs): a HashMap<Key, Value> value store `data`    *)
(* paired with a BTreeSet<Key> order index `data_index`.  Every public     *)
(* method is one action; the method bodies are the lower-case operators.   *)
(***************************************************************************)
EXTENDS Integers, Sequences, FiniteSets, TLC

\* Bounds of the model: keys are 0..MaxKey, values are 1..MaxVal.
MaxKey == 3
MaxVal == 2

Keys == 0..MaxKey
Values == 1..MaxVal

VARIABLES
    data,        \* HashMap<Key, Value>: a function from the stored keys to values
    data_index,  \* BTreeSet<Key>: the set of indexed keys
    op,          \* name of the last method called ("default" after construction)
    arg,         \* arguments of the last call: <<>>, <<key>> or <<key, value>>
    ret,         \* result of the last call
    pre_data,    \* `data` at the entry of the last call
    pre_index,   \* `data_index` at the entry of the last call
    live,        \* history: keys inserted and not since returned by a pop_latest
    panicked,    \* TRUE once a call indexed sorted_keys out of bounds
    prev_insert, \* history: the insert of a new key right before a pop_latest of that key
    run,         \* history: the current run of back-to-back pop_latest(q) calls
    ins          \* history: last value inserted per key while only inserts and reads ran

vars == <<data, data_index, op, arg, ret, pre_data, pre_index, live, panicked,
          prev_insert, run, ins>>

-----------------------------------------------------------------------------
(* Option<T> *)
None == <<>>
Some(x) == <<x>>

(* Result<usize, usize> of binary_search *)
Ok(i) == [ok |-> TRUE, index |-> i]
Err(i) == [ok |-> FALSE, index |-> i]

(* std::collections::HashMap *)
HashMap_new == <<>>
HashMap_insert(m, k, v) == [x \in (DOMAIN m) \cup {k} |-> IF x = k THEN v ELSE m[x]]
HashMap_get(m, k) == IF k \in DOMAIN m THEN Some(m[k]) ELSE None
HashMap_remove(m, k) == [x \in (DOMAIN m) \ {k} |-> m[x]]

(* std::collections::BTreeSet *)
BTreeSet_new == {}
BTreeSet_insert(s, k) == s \cup {k}
BTreeSet_contains(s, k) == k \in s
BTreeSet_remove(s, k) == s \ {k}

\* mutant: the keys are enumerated in descending order
RECURSIVE iter_desc(_)
iter_desc(s) ==
    IF s = {} THEN <<>>
    ELSE LET m == CHOOSE x \in s : \A y \in s : y <= x
         IN <<m>> \o iter_desc(s \ {m})

\* data_index.iter().collect(): the keys in ascending order
RECURSIVE iter(_)
iter(s) ==
    IF s = {} THEN <<>>
    ELSE LET m == CHOOSE x \in s : \A y \in s : x <= y
         IN <<m>> \o iter(s \ {m})

\* zero-based element access of a Vec
At(v, i) == v[i + 1]
InBounds(v, i) == i >= 0 /\ i < Len(v)

\* slice::binary_search over the half-open zero-based range [left, right)
RECURSIVE binary_search_by(_, _, _, _)
binary_search_by(v, key, left, right) ==
    IF left >= right THEN Err(left)
    ELSE LET mid == left + ((right - left) \div 2)
         IN IF At(v, mid) = key THEN Ok(mid)
            ELSE IF At(v, mid) < key THEN binary_search_by(v, key, mid + 1, right)
            ELSE binary_search_by(v, key, left, mid)

binary_search(v, key) == binary_search_by(v, key, 0, Len(v))

-----------------------------------------------------------------------------
\* mutant: the value store is written, the order index is not
insert_no_index(d, idx, key, value) ==
    [data |-> HashMap_insert(d, key, value), data_index |-> idx]

\* mutant: an already-present key keeps its old value (entry().or_insert)
insert_keep_old(d, idx, key, value) ==
    [data |-> IF key \in DOMAIN d THEN d ELSE HashMap_insert(d, key, value),
     data_index |-> BTreeSet_insert(idx, key)]

\* mutant: the index takes a key only when it is above every indexed key
insert_monotonic(d, idx, key, value) ==
    [data |-> HashMap_insert(d, key, value),
     data_index |-> IF \A k \in idx : k < key THEN BTreeSet_insert(idx, key) ELSE idx]

\* mutant: a new key evicts the smallest stored key (size bounding)
insert_evict_min(d, idx, key, value) ==
    IF key \in idx \/ idx = {}
    THEN [data |-> HashMap_insert(d, key, value),
          data_index |-> BTreeSet_insert(idx, key)]
    ELSE LET m == CHOOSE x \in idx : \A y \in idx : x <= y
         IN [data |-> HashMap_insert(HashMap_remove(d, m), key, value),
             data_index |-> BTreeSet_insert(BTreeSet_remove(idx, m), key)]

(* LatestMap::insert *)
insert(d, idx, key, value) ==
    [data |-> HashMap_insert(d, key, value),
     data_index |-> BTreeSet_insert(idx, key)]

\* mutant: a missing key resolves to the smallest stored key, not to its floor
get_latest_target_key_first(idx, key) ==
    IF BTreeSet_contains(idx, key) THEN [panic |-> FALSE, key |-> Some(key)]
    ELSE LET sorted_keys == iter(idx)
             found == binary_search(sorted_keys, key)
         IN IF found.ok THEN [panic |-> FALSE, key |-> Some(key)]
            ELSE IF found.index = 0 THEN [panic |-> FALSE, key |-> None]
            ELSE [panic |-> FALSE, key |-> Some(At(sorted_keys, 0))]

\* mutant: the `gt_index == 0` early return is missing
get_latest_target_key_no_zero_check(idx, key) ==
    IF BTreeSet_contains(idx, key) THEN [panic |-> FALSE, key |-> Some(key)]
    ELSE LET sorted_keys == iter(idx)
             found == binary_search(sorted_keys, key)
             gt_index == found.index
         IN IF found.ok THEN [panic |-> FALSE, key |-> Some(key)]
            ELSE IF InBounds(sorted_keys, gt_index - 1)
                 THEN [panic |-> FALSE, key |-> Some(At(sorted_keys, gt_index - 1))]
                 ELSE [panic |-> TRUE, key |-> None]

(* target_key of LatestMap::get_latest; key = None is the early `return None` *)
get_latest_target_key(idx, key) ==
    IF BTreeSet_contains(idx, key) THEN [panic |-> FALSE, key |-> Some(key)]
    ELSE LET sorted_keys == iter(idx)
             found == binary_search(sorted_keys, key)
             gt_index == found.index
         IN IF found.ok THEN [panic |-> FALSE, key |-> Some(key)]
            ELSE IF gt_index = 0 THEN [panic |-> FALSE, key |-> None]
            ELSE IF InBounds(sorted_keys, gt_index - 1)
                 THEN [panic |-> FALSE, key |-> Some(At(sorted_keys, gt_index - 1))]
                 ELSE [panic |-> TRUE, key |-> None]

(* LatestMap::get_latest *)
get_latest(d, idx, key) ==
    LET target_key == get_latest_target_key(idx, key)
    IN [panic |-> target_key.panic,
        ret |-> IF target_key.key = None THEN None
                ELSE HashMap_get(d, target_key.key[1])]

\* mutant: first() instead of last()
get_last_with_key_first(d, idx) ==
    LET sorted_keys == iter(idx)
    IN IF Len(sorted_keys) = 0 THEN None
       ELSE LET key == sorted_keys[1]
                v == HashMap_get(d, key)
            IN IF v = None THEN None ELSE Some(<<key, v[1]>>)

(* LatestMap::get_last_with_key *)
get_last_with_key(d, idx) ==
    LET sorted_keys == iter(idx)
    IN IF Len(sorted_keys) = 0 THEN None
       ELSE LET key == sorted_keys[Len(sorted_keys)]
                v == HashMap_get(d, key)
            IN IF v = None THEN None ELSE Some(<<key, v[1]>>)

\* mutant: a handle is produced for every key (entry-style access)
get_mut_always(d, key) == Some(key)

\* mutant: get_mut resolves the floor of the key, as get_latest does
get_mut_floor(d, key) ==
    LET below == {k \in DOMAIN d : k <= key}
    IN IF below = {} THEN None
       ELSE Some(CHOOSE k \in below : \A j \in below : j <= k)

(* LatestMap::get_mut: the handle is the slot of `data` it borrows *)
get_mut(d, key) == IF key \in DOMAIN d THEN Some(key) ELSE None

\* `*value = 3` through the handle: only an existing slot can be written
handle_write(d, slot, value) == [x \in DOMAIN d |-> IF x = slot THEN value ELSE d[x]]

\* mutant: contains_key answers for the floor of the key
contains_key_floor(idx, key) == \E k \in idx : k <= key

(* LatestMap::contains_key *)
contains_key(idx, key) == BTreeSet_contains(idx, key)

\* mutant: a missing key resolves to the greatest key of the container
pop_latest_target_key_max(idx, key) ==
    IF BTreeSet_contains(idx, key) THEN [panic |-> FALSE, key |-> Some(key)]
    ELSE LET sorted_keys == iter(idx)
         IN IF Len(sorted_keys) = 0 THEN [panic |-> FALSE, key |-> None]
            ELSE [panic |-> FALSE, key |-> Some(At(sorted_keys, Len(sorted_keys) - 1))]

\* mutant: gt_index = 0 falls back to the smallest stored key
pop_latest_target_key_ceil(idx, key) ==
    IF BTreeSet_contains(idx, key) THEN [panic |-> FALSE, key |-> Some(key)]
    ELSE LET sorted_keys == iter(idx)
             found == binary_search(sorted_keys, key)
             gt_index == found.index
         IN IF found.ok THEN [panic |-> FALSE, key |-> Some(key)]
            ELSE IF Len(sorted_keys) = 0 THEN [panic |-> FALSE, key |-> None]
            ELSE IF gt_index = 0 THEN [panic |-> FALSE, key |-> Some(At(sorted_keys, 0))]
            ELSE [panic |-> FALSE, key |-> Some(At(sorted_keys, gt_index - 1))]

(* target_key of LatestMap::pop_latest; key = None is the early `return None` *)
pop_latest_target_key(idx, key) ==
    IF BTreeSet_contains(idx, key) THEN [panic |-> FALSE, key |-> Some(key)]
    ELSE LET sorted_keys == iter(idx)
             found == binary_search(sorted_keys, key)
             gt_index == found.index
         IN IF found.ok THEN [panic |-> FALSE, key |-> Some(key)]
            ELSE IF gt_index = 0 THEN [panic |-> FALSE, key |-> None]
            ELSE IF InBounds(sorted_keys, gt_index - 1)
                 THEN [panic |-> FALSE, key |-> Some(At(sorted_keys, gt_index - 1))]
                 ELSE [panic |-> TRUE, key |-> None]

\* mutant: the key leaves the order index but stays in the value store
pop_latest_index_only(d, idx, key) ==
    LET target_key == pop_latest_target_key(idx, key)
    IN IF target_key.key = None
       THEN [panic |-> target_key.panic, data |-> d, data_index |-> idx, ret |-> None]
       ELSE LET k == target_key.key[1]
                value == HashMap_get(d, k)
            IN [panic |-> FALSE,
                data |-> d,
                data_index |-> BTreeSet_remove(idx, k),
                ret |-> IF value = None THEN None ELSE Some(<<k, value[1]>>)]

\* mutant: the key leaves the value store but stays in the order index
pop_latest_data_only(d, idx, key) ==
    LET target_key == pop_latest_target_key(idx, key)
    IN IF target_key.key = None
       THEN [panic |-> target_key.panic, data |-> d, data_index |-> idx, ret |-> None]
       ELSE LET k == target_key.key[1]
                value == HashMap_get(d, k)
            IN [panic |-> FALSE,
                data |-> HashMap_remove(d, k),
                data_index |-> idx,
                ret |-> IF value = None THEN None ELSE Some(<<k, value[1]>>)]

\* mutant: every key up to the resolved one is dropped (compaction)
pop_latest_drain(d, idx, key) ==
    LET target_key == pop_latest_target_key(idx, key)
    IN IF target_key.key = None
       THEN [panic |-> target_key.panic, data |-> d, data_index |-> idx, ret |-> None]
       ELSE LET k == target_key.key[1]
                value == HashMap_get(d, k)
            IN [panic |-> FALSE,
                data |-> [x \in {y \in DOMAIN d : y > k} |-> d[x]],
                data_index |-> {y \in idx : y > k},
                ret |-> IF value = None THEN None ELSE Some(<<k, value[1]>>)]

(* LatestMap::pop_latest *)
pop_latest(d, idx, key) ==
    LET target_key == pop_latest_target_key(idx, key)
    IN IF target_key.key = None
       THEN [panic |-> target_key.panic, data |-> d, data_index |-> idx, ret |-> None]
       ELSE LET k == target_key.key[1]
                value == HashMap_get(d, k)
            IN [panic |-> FALSE,
                data |-> HashMap_remove(d, k),
                data_index |-> BTreeSet_remove(idx, k),
                ret |-> IF value = None THEN None ELSE Some(<<k, value[1]>>)]

-----------------------------------------------------------------------------
(* History bookkeeping of the calls; it never influences the container *)
NoInsert == [valid |-> FALSE, key |-> 0, value |-> 0, data |-> <<>>, data_index |-> {}]
NoRun ==
    [active |-> FALSE, q |-> 0, data |-> <<>>, keys |-> <<>>,
     done |-> FALSE, revived |-> FALSE, extra |-> FALSE]
NoIns == [only |-> FALSE, last |-> <<>>]

\* the last call, recorded when pop_latest(key) is about to run right after
\* an insert of the same key that was not stored before that insert
InsertBeforePop(key) ==
    IF op = "insert" /\ arg[1] = key /\ key \notin pre_index /\ key \notin DOMAIN pre_data
    THEN [valid |-> TRUE, key |-> arg[1], value |-> arg[2],
          data |-> pre_data, data_index |-> pre_index]
    ELSE NoInsert

\* the run after a pop_latest(key) that returned result: a call with the same
\* key right after a pop_latest continues the run, any other call starts one
RunAfterPop(key, result) ==
    LET base == IF run.active /\ run.q = key THEN run
                ELSE [active |-> TRUE, q |-> key, data |-> data, keys |-> <<>>,
                      done |-> FALSE, revived |-> FALSE, extra |-> FALSE]
    IN [active |-> TRUE,
        q |-> key,
        data |-> base.data,
        keys |-> IF result = None THEN base.keys ELSE Append(base.keys, result[1][1]),
        done |-> base.done \/ result = None,
        revived |-> base.revived \/ (base.done /\ result # None),
        extra |-> base.extra \/ base.done]

InsAfterInsert(key, value) ==
    IF ins.only
    THEN [only |-> TRUE,
          last |-> [x \in (DOMAIN ins.last) \cup {key} |->
                       IF x = key THEN value ELSE ins.last[x]]]
    ELSE ins

-----------------------------------------------------------------------------
(* LatestMap::default *)
Init ==
    /\ data = HashMap_new
    /\ data_index = BTreeSet_new
    /\ op = "default"
    /\ arg = <<>>
    /\ ret = None
    /\ pre_data = HashMap_new
    /\ pre_index = BTreeSet_new
    /\ live = {}
    /\ panicked = FALSE
    /\ prev_insert = NoInsert
    /\ run = NoRun
    /\ ins = [only |-> TRUE, last |-> <<>>]

Insert(key, value) ==
    /\ ~panicked
    /\ LET r == insert(data, data_index, key, value)
       IN /\ data' = r.data
          /\ data_index' = r.data_index
    /\ op' = "insert"
    /\ arg' = <<key, value>>
    /\ ret' = None
    /\ pre_data' = data
    /\ pre_index' = data_index
    /\ live' = live \cup {key}
    /\ prev_insert' = NoInsert
    /\ run' = NoRun
    /\ ins' = InsAfterInsert(key, value)
    /\ UNCHANGED panicked

\* mutant: the read consumes the entry it returns
GetLatest_consumes(key) ==
    /\ ~panicked
    /\ LET r == pop_latest(data, data_index, key)
       IN /\ ret' = IF r.ret = None THEN None ELSE Some(r.ret[1][2])
          /\ data' = r.data
          /\ data_index' = r.data_index
          /\ panicked' = r.panic
    /\ op' = "get_latest"
    /\ arg' = <<key>>
    /\ pre_data' = data
    /\ pre_index' = data_index
    /\ prev_insert' = NoInsert
    /\ run' = NoRun
    /\ UNCHANGED <<live, ins>>

GetLatest(key) ==
    /\ ~panicked
    /\ LET r == get_latest(data, data_index, key)
       IN /\ ret' = r.ret
          /\ panicked' = r.panic
    /\ op' = "get_latest"
    /\ arg' = <<key>>
    /\ pre_data' = data
    /\ pre_index' = data_index
    /\ prev_insert' = NoInsert
    /\ run' = NoRun
    /\ UNCHANGED <<data, data_index, live, ins>>

GetLastWithKey ==
    /\ ~panicked
    /\ ret' = get_last_with_key(data, data_index)
    /\ op' = "get_last_with_key"
    /\ arg' = <<>>
    /\ pre_data' = data
    /\ pre_index' = data_index
    /\ prev_insert' = NoInsert
    /\ run' = NoRun
    /\ UNCHANGED <<data, data_index, live, panicked, ins>>

\* get_mut(&key) followed, when a handle is returned, by `*handle = value`
GetMut(key, value) ==
    /\ ~panicked
    /\ LET handle == get_mut(data, key)
       IN /\ ret' = handle
          /\ data' = IF handle = None THEN data
                     ELSE handle_write(data, handle[1], value)
    /\ op' = "get_mut"
    /\ arg' = <<key, value>>
    /\ pre_data' = data
    /\ pre_index' = data_index
    /\ prev_insert' = NoInsert
    /\ run' = NoRun
    /\ ins' = NoIns
    /\ UNCHANGED <<data_index, live, panicked>>

ContainsKey(key) ==
    /\ ~panicked
    /\ ret' = contains_key(data_index, key)
    /\ op' = "contains_key"
    /\ arg' = <<key>>
    /\ pre_data' = data
    /\ pre_index' = data_index
    /\ prev_insert' = NoInsert
    /\ run' = NoRun
    /\ UNCHANGED <<data, data_index, live, panicked, ins>>

PopLatest(key) ==
    /\ ~panicked
    /\ LET r == pop_latest(data, data_index, key)
       IN /\ data' = r.data
          /\ data_index' = r.data_index
          /\ ret' = r.ret
          /\ panicked' = r.panic
          /\ live' = IF r.ret = None THEN live ELSE live \ {r.ret[1][1]}
          /\ run' = RunAfterPop(key, r.ret)
    /\ op' = "pop_latest"
    /\ arg' = <<key>>
    /\ pre_data' = data
    /\ pre_index' = data_index
    /\ prev_insert' = InsertBeforePop(key)
    /\ ins' = NoIns

Next ==
    \/ \E key \in Keys, value \in Values : Insert(key, value)
    \/ \E key \in Keys : GetLatest(key)
    \/ GetLastWithKey
    \/ \E key \in Keys, value \in Values : GetMut(key, value)
    \/ \E key \in Keys : ContainsKey(key)
    \/ \E key \in Keys : PopLatest(key)

Spec == Init /\ [][Next]_vars

-----------------------------------------------------------------------------
(* Reference notions the properties are stated with *)
StoredLeq(S, q) == {k \in S : k <= q}
Greatest(S) == CHOOSE x \in S : \A y \in S : y <= x
HasFloor(S, q) == StoredLeq(S, q) # {}
Floor(S, q) == Greatest(StoredLeq(S, q))
Without(m, k) == [x \in (DOMAIN m) \ {k} |-> m[x]]

\* C1: at every operation boundary the key set of the order index equals the
\* key set of the value store, and the two have the same cardinality.
C1_IndexEqualsStore ==
    /\ data_index = DOMAIN data
    /\ Cardinality(data_index) = Cardinality(DOMAIN data)

C1_Witness ==
    /\ op = "pop_latest"
    /\ ret # None
    /\ Cardinality(data_index) >= 2
    /\ data_index = DOMAIN data

\* C2: get_latest(q) returns the value of the greatest stored key <= q (q's
\* own value when q is stored) and is absent exactly when no stored key is <= q.
C2_GetLatestIsFloor ==
    op = "get_latest" =>
        LET q == arg[1]
        IN /\ (ret = None) <=> ~HasFloor(DOMAIN pre_data, q)
           /\ HasFloor(DOMAIN pre_data, q) =>
                  ret = Some(pre_data[Floor(DOMAIN pre_data, q)])
           /\ q \in DOMAIN pre_data => ret = Some(pre_data[q])

C2_Witness ==
    /\ op = "get_latest"
    /\ arg[1] \notin DOMAIN data
    /\ ret # None
    /\ Cardinality(StoredLeq(DOMAIN data, arg[1])) >= 2
    /\ \E k \in DOMAIN data : k > arg[1]

\* C3: when some stored key is <= q, pop_latest(q) removes exactly the greatest
\* stored key k <= q from index and store, returns (k, value of k), lowers the
\* entry count by one, and get_latest(q) right afterwards gives the value of
\* the next-lower stored key, or absent when none remains.
C3_PopRemovesFloor ==
    (op = "pop_latest" /\ HasFloor(DOMAIN pre_data, arg[1])) =>
        LET q == arg[1]
            k == Floor(DOMAIN pre_data, q)
            rest == (DOMAIN pre_data) \ {k}
        IN /\ ret = Some(<<k, pre_data[k]>>)
           /\ data_index = pre_index \ {k}
           /\ data = Without(pre_data, k)
           /\ Cardinality(DOMAIN data) = Cardinality(DOMAIN pre_data) - 1
           /\ Cardinality(data_index) = Cardinality(pre_index) - 1
           /\ get_latest(data, data_index, q).ret =
                  IF HasFloor(rest, q) THEN Some(pre_data[Floor(rest, q)]) ELSE None

C3_Witness ==
    /\ op = "pop_latest"
    /\ ret # None
    /\ ret[1][1] < arg[1]
    /\ get_latest(data, data_index, arg[1]).ret # None

\* C4: pop_latest(q) returns the value get_latest(q) would have returned in the
\* same state (both absent or both the value of the same key), and the key it
\* removes is the floor of q, which need not be the greatest key stored.
C4_PopAgreesWithGetLatest ==
    op = "pop_latest" =>
        LET q == arg[1]
            seen == get_latest(pre_data, pre_index, q).ret
        IN /\ (ret = None) <=> (seen = None)
           /\ ret # None =>
                 /\ Some(ret[1][2]) = seen
                 /\ ret[1][1] = Floor(pre_index, q)
                 /\ pre_index \ data_index = {Floor(pre_index, q)}
                 /\ (DOMAIN pre_data) \ (DOMAIN data) = {Floor(pre_index, q)}

C4_Witness ==
    /\ op = "pop_latest"
    /\ ret # None
    /\ ret[1][1] # Greatest(pre_index)
    /\ arg[1] \notin pre_index

\* C5: pop_latest(q) with no stored key <= q (the empty container included)
\* returns absent and leaves index and store unchanged.
C5_PopNothingBelow ==
    (op = "pop_latest" /\ ~HasFloor(pre_index \cup DOMAIN pre_data, arg[1])) =>
        /\ ret = None
        /\ data = pre_data
        /\ data_index = pre_index

C5_Witness ==
    /\ op = "pop_latest"
    /\ ret = None
    /\ pre_index # {}
    /\ data_index = pre_index

\* C6: inserting a key that is already present overwrites its value, keeps the
\* cardinality of index and store, and get_latest of the key gives the new value.
C6_OverwriteKeepsCardinality ==
    (op = "insert" /\ arg[1] \in pre_index) =>
        LET k == arg[1]
            v == arg[2]
        IN /\ HashMap_get(data, k) = Some(v)
           /\ Cardinality(data_index) = Cardinality(pre_index)
           /\ Cardinality(DOMAIN data) = Cardinality(DOMAIN pre_data)
           /\ get_latest(data, data_index, k).ret = Some(v)

C6_Witness ==
    /\ op = "insert"
    /\ arg[1] \in pre_index
    /\ pre_data[arg[1]] # arg[2]
    /\ Cardinality(pre_index) >= 2

\* C7: contains_key(k) is true iff k was inserted and not since removed by a
\* pop_latest that resolved to k; it is false for a never-stored key even when
\* a smaller stored key makes get_latest(k) return a value.
C7_ContainsKeyExact ==
    /\ \A k \in Keys : contains_key(data_index, k) <=> k \in live
    /\ op = "contains_key" => (ret <=> arg[1] \in live)

C7_Witness ==
    /\ op = "contains_key"
    /\ ret = FALSE
    /\ arg[1] \notin live
    /\ get_latest(data, data_index, arg[1]).ret # None

\* C8: get_last_with_key() is absent on the empty container and otherwise is
\* the pair of the greatest key present and that key's current value.
C8_GetLastIsGreatest ==
    op = "get_last_with_key" =>
        IF DOMAIN pre_data = {} THEN ret = None
        ELSE LET k == Greatest(DOMAIN pre_data)
             IN ret = Some(<<k, pre_data[k]>>)

C8_Witness ==
    /\ op = "get_last_with_key"
    /\ ret # None
    /\ Cardinality(DOMAIN data) >= 2
    /\ \E k \in Keys : k > ret[1][1]

\* C9: get_mut(k) yields a handle iff k itself is stored, the handle is k's own
\* slot, and for a key that is not stored it yields absent and changes nothing,
\* even when a smaller stored key makes get_latest(k) return a value.
C9_GetMutExact ==
    op = "get_mut" =>
        LET k == arg[1]
        IN /\ (ret # None) <=> (k \in DOMAIN pre_data)
           /\ ret # None => ret = Some(k)
           /\ ret = None => (data = pre_data /\ data_index = pre_index)

C9_Witness ==
    /\ op = "get_mut"
    /\ ret = None
    /\ data_index # {}
    /\ get_latest(data, data_index, arg[1]).ret # None

\* The frame of a write through the handle of get_mut(k), shared by both
\* statements of C10.
C10_Frame ==
    LET k == arg[1]
        v == arg[2]
    IN /\ data = [x \in DOMAIN pre_data |-> IF x = k THEN v ELSE pre_data[x]]
       /\ data_index = pre_index
       /\ DOMAIN data = DOMAIN pre_data

\* C10 as stated: after writing v' through the handle of get_mut(k) only k's
\* value changed, and get_latest(q) returns v' for exactly the q whose floor is k.
C10_Original ==
    (op = "get_mut" /\ ret # None) =>
        /\ C10_Frame
        /\ \A q \in Keys :
               (get_latest(data, data_index, q).ret = Some(arg[2]))
                   <=> (HasFloor(data_index, q) /\ Floor(data_index, q) = arg[1])

\* C10 amended: after writing v' through the handle of get_mut(k) only k's
\* value changed; get_latest(q) returns v' for every q whose floor is k, and
\* for every other q it returns what it returned before the write.
C10_WriteThroughHandle ==
    (op = "get_mut" /\ ret # None) =>
        /\ C10_Frame
        /\ \A q \in Keys :
               IF HasFloor(data_index, q) /\ Floor(data_index, q) = arg[1]
               THEN get_latest(data, data_index, q).ret = Some(arg[2])
               ELSE get_latest(data, data_index, q).ret
                        = get_latest(pre_data, pre_index, q).ret

C10_Witness ==
    /\ op = "get_mut"
    /\ ret # None
    /\ pre_data[arg[1]] # arg[2]
    /\ \E q \in Keys : q # arg[1] /\ HasFloor(data_index, q)
                          /\ Floor(data_index, q) = arg[1]
    /\ \E j \in DOMAIN data : j # arg[1] /\ data[j] = arg[2]

\* C11: the reads get_latest, get_last_with_key and contains_key leave the
\* container unchanged: index and store (key sets, values, entry count) are
\* the same before and after the call.
C11_ReadsDoNotMutate ==
    op \in {"get_latest", "get_last_with_key", "contains_key"} =>
        /\ data = pre_data
        /\ data_index = pre_index
        /\ Cardinality(DOMAIN data) = Cardinality(DOMAIN pre_data)
        /\ Cardinality(data_index) = Cardinality(pre_index)

C11_Witness ==
    /\ op = "get_latest"
    /\ ret # None
    /\ Cardinality(DOMAIN pre_data) >= 3
    /\ data = pre_data

\* C12: no operation faults for any key argument: gt_index - 1 is computed
\* only when gt_index # 0 and is then within the bounds of sorted_keys, in
\* get_latest and in pop_latest, and absence is an explicit "no value".
C12_NoFault ==
    /\ ~panicked
    /\ \A q \in Keys :
           LET sorted_keys == iter(data_index)
               found == binary_search(sorted_keys, q)
           IN /\ q \notin data_index =>
                     /\ ~found.ok
                     /\ found.index # 0 => InBounds(sorted_keys, found.index - 1)
              /\ ~get_latest(data, data_index, q).panic
              /\ ~pop_latest(data, data_index, q).panic
    /\ op \in {"get_latest", "get_mut", "get_last_with_key", "pop_latest"} =>
           (ret = None \/ Len(ret) = 1)

C12_Witness ==
    /\ op = "get_latest"
    /\ ret = None
    /\ ~panicked
    /\ pre_index # {}
    /\ \A k \in pre_index : arg[1] < k

\* C13: a key enters the container only by an insert of that key, and a key
\* that is present leaves it only by a pop_latest whose floor resolves to it;
\* every other step keeps it in both the index and the store.
C13_Lifecycle ==
    [][\A k \in Keys :
          /\ ((k \notin data_index /\ k \in data_index')
                 \/ (k \notin DOMAIN data /\ k \in DOMAIN data'))
               => (op' = "insert" /\ arg'[1] = k)
          /\ ((k \in data_index /\ k \in DOMAIN data)
                 /\ (k \notin data_index' \/ k \notin DOMAIN data'))
               => /\ op' = "pop_latest"
                  /\ HasFloor(data_index, arg'[1])
                  /\ Floor(data_index, arg'[1]) = k
                  /\ ret' # None
                  /\ ret'[1][1] = k
      ]_vars

C13_Witness ==
    /\ op = "pop_latest"
    /\ ret # None
    /\ \E k \in data_index : k < ret[1][1]
    /\ \E k \in data_index : k > ret[1][1]

\* C14: the key sequence materialised from the order index is strictly
\* ascending with no duplicate key, whatever the insertion order was.
C14_SortedKeysAscending ==
    LET sorted_keys == iter(data_index)
    IN /\ \A i, j \in 1..Len(sorted_keys) : i < j => sorted_keys[i] < sorted_keys[j]
       /\ Len(sorted_keys) = Cardinality(data_index)
       /\ {sorted_keys[i] : i \in 1..Len(sorted_keys)} = data_index

C14_Witness ==
    /\ op = "insert"
    /\ Cardinality(pre_index) >= 2
    /\ arg[1] \notin pre_index
    /\ \E k \in pre_index : k < arg[1]
    /\ \E k \in pre_index : k > arg[1]

\* C15: contains_key(k), which reads the order index, is true iff get_mut(k),
\* which reads the value store, yields a handle.
C15_ExactOpsAgree ==
    \A k \in Keys : contains_key(data_index, k) <=> (get_mut(data, k) # None)

C15_Witness ==
    /\ op = "pop_latest"
    /\ ret # None
    /\ data_index # {}
    /\ ~contains_key(data_index, ret[1][1])
    /\ get_mut(data, ret[1][1]) = None

\* C16: insert(k, v) changes only the entry for k: every other key keeps its
\* membership and value, the entry count grows by one when k was absent and by
\* zero when it was present, and get_latest(q) is unchanged for every q whose
\* floor after the insert is not k.
C16_InsertFrame ==
    op = "insert" =>
        LET k == arg[1]
            grow == IF k \in pre_index THEN 0 ELSE 1
        IN /\ \A j \in Keys \ {k} :
                  /\ (j \in data_index) <=> (j \in pre_index)
                  /\ (j \in DOMAIN data) <=> (j \in DOMAIN pre_data)
                  /\ j \in DOMAIN data => data[j] = pre_data[j]
           /\ Cardinality(data_index) = Cardinality(pre_index) + grow
           /\ Cardinality(DOMAIN data) = Cardinality(DOMAIN pre_data) + grow
           /\ \A q \in Keys :
                  ~(HasFloor(data_index, q) /\ Floor(data_index, q) = k) =>
                      get_latest(data, data_index, q).ret
                          = get_latest(pre_data, pre_index, q).ret

C16_Witness ==
    /\ op = "insert"
    /\ arg[1] \notin pre_index
    /\ \E q \in Keys : q > arg[1] /\ HasFloor(data_index, q)
                          /\ Floor(data_index, q) # arg[1]
    /\ \E q \in Keys : q < arg[1] /\ HasFloor(data_index, q)

\* C17: back-to-back pop_latest(q) calls with the same q return the stored
\* keys <= q one per call in strictly descending order and then absent for
\* every further call; keys greater than q stay stored with their values.
C17_RepeatedPopDrains ==
    run.active =>
        LET q == run.q
            start == run.data
            below == StoredLeq(DOMAIN start, q)
            n == Len(run.keys)
        IN /\ \A i, j \in 1..n : i < j => run.keys[i] > run.keys[j]
           /\ \A i \in 1..n :
                  /\ run.keys[i] \in below
                  /\ Cardinality({k \in below : k > run.keys[i]}) = i - 1
           /\ run.done => {run.keys[i] : i \in 1..n} = below
           /\ ~run.revived
           /\ \A k \in DOMAIN start :
                  k > q => (k \in data_index /\ k \in DOMAIN data /\ data[k] = start[k])

C17_Witness ==
    /\ op = "pop_latest"
    /\ run.active
    /\ Len(run.keys) >= 2
    /\ run.done
    /\ run.extra
    /\ \E k \in DOMAIN data : k > run.q

\* C18: inserts commute: after inserts only (reads allowed in between) the
\* container is determined by the keys inserted and the last value inserted
\* for each, so index, store and every get_latest, contains_key,
\* get_last_with_key and pop_latest result do not depend on the insertion order.
C18_InsertsCommute ==
    ins.only =>
        LET last == ins.last
            S == DOMAIN last
        IN /\ data = last
           /\ data_index = S
           /\ \A q \in Keys :
                  /\ get_latest(data, data_index, q).ret
                         = IF HasFloor(S, q) THEN Some(last[Floor(S, q)]) ELSE None
                  /\ contains_key(data_index, q) <=> q \in S
                  /\ pop_latest(data, data_index, q).ret
                         = IF HasFloor(S, q)
                           THEN Some(<<Floor(S, q), last[Floor(S, q)]>>) ELSE None
           /\ get_last_with_key(data, data_index)
                  = IF S = {} THEN None ELSE Some(<<Greatest(S), last[Greatest(S)]>>)

C18_Witness ==
    /\ ins.only
    /\ op = "insert"
    /\ Cardinality(pre_index) >= 2
    /\ arg[1] \notin pre_index
    /\ \A k \in pre_index : arg[1] < k
    /\ \E k, j \in pre_index : k < j /\ pre_data[k] # pre_data[j]

\* C19: for a key k that is not stored, insert(k, v) followed immediately by
\* pop_latest(k) returns (k, v) and restores index and store to what they
\* were before the insert.
C19_InsertPopRoundTrip ==
    (/\ op = "pop_latest"
     /\ prev_insert.valid
     /\ arg[1] = prev_insert.key
     /\ prev_insert.key \notin prev_insert.data_index
     /\ prev_insert.key \notin DOMAIN prev_insert.data) =>
        /\ ret = Some(<<prev_insert.key, prev_insert.value>>)
        /\ data = prev_insert.data
        /\ data_index = prev_insert.data_index

C19_Witness ==
    /\ op = "pop_latest"
    /\ prev_insert.valid
    /\ arg[1] = prev_insert.key
    /\ prev_insert.key \notin prev_insert.data_index
    /\ \E k \in prev_insert.data_index : k < prev_insert.key
    /\ \E k \in prev_insert.data_index : k > prev_insert.key
    /\ data = prev_insert.data

====
